---- MODULE Spec2Model ----
(***************************************************************************)
(* Verification model of the M*G grouped GEMM reference harness            *)
(* (triton_mg_group_gemm/fast_debug.py): the reference forward loop, the   *)
(* autograd reference backward, the tensor comparison and the              *)
(* multi-configuration sweep.  Tensors are matrices of integers, held as   *)
(* sequences of rows.                                                      *)
(***************************************************************************)
EXTENDS Integers, Sequences, FiniteSets, TLC

VARIABLES
    x,            \* input activations, M rows of K entries
    w,            \* weights, N rows of K entries
    m_sizes,      \* group sizes, a sequence of G integers
    grad_output,  \* upstream gradient, M rows of N entries
    result,       \* forward output under construction
    m_start,      \* running row offset of the forward loop
    g,            \* number of loop iterations completed
    tape,         \* autograd graph: the slices [s, e) the loop has assigned
    grad_x,       \* gradient w.r.t. x
    grad_w,       \* gradient w.r.t. w (the shared accumulator of the engine)
    wpc,          \* engine: each group-worker's position
    partial,      \* engine: each group-worker's local partial product
    writers,      \* engine: for every output row, the workers that wrote it
    n_configs,    \* sweep: the length of the configs list
    config,       \* sweep: the configuration (G, M) under test
    config_idx,   \* sweep: 0-based index of the configuration under test
    M_sizes,      \* sweep: the group-size list under construction
    results,      \* sweep: the results list
    outcomes,     \* sweep: what happened to each configuration, in order
    sweep_ret,    \* sweep: the value returned
    actual,       \* comparison: the tensor under test, flattened
    expected,     \* comparison: the reference tensor, flattened
    ncols,        \* comparison: the tensors' column count
    log,          \* comparison: the records logged
    is_close,     \* comparison: the value returned
    pc            \* position of the running call

tensorVars == <<x, w, m_sizes, grad_output, result, grad_x, grad_w>>

loopVars == <<m_start, g, tape>>

refVars == <<tensorVars, loopVars>>

engVars == <<wpc, partial, writers>>

sweepVars == <<n_configs, config, config_idx, M_sizes, results, outcomes, sweep_ret>>

cmpVars == <<actual, expected, ncols, log, is_close>>

vars == <<refVars, engVars, sweepVars, cmpVars, pc>>

-----------------------------------------------------------------------------
(* Bounds of the model *)

MaxM == 3       \* rows of x
MaxG == 3       \* number of groups
MaxSeed == 1    \* distinct random draws of the tensors
KDim == 2       \* K, hidden dimension
NDim == 2       \* N, output dimension

-----------------------------------------------------------------------------
(* Integer matrices *)

RECURSIVE SumSeq(_)
SumSeq(s) == IF s = <<>> THEN 0 ELSE s[1] + SumSeq(Tail(s))

Min(a, b) == IF a < b THEN a ELSE b

Dot(u, v) == SumSeq([k \in 1..Len(u) |-> u[k] * v[k]])

Column(mat, c) == [i \in 1..Len(mat) |-> mat[i][c]]

Zeros(rows, cols) == [i \in 1..rows |-> [c \in 1..cols |-> 0]]

\* a @ b.T for a of shape (R, K) and b of shape (N, K)
MatMulT(a, b) == [i \in 1..Len(a) |-> [n \in 1..Len(b) |-> Dot(a[i], b[n])]]

\* a @ b for a of shape (R, N) and b of shape (N, K)
MatMul(a, b, cols) ==
    [i \in 1..Len(a) |-> [k \in 1..cols |-> Dot(a[i], Column(b, k))]]

\* a.T @ b for a of shape (R, N) and b of shape (R, K): shape (N, K)
MatTMul(a, b, rows, cols) ==
    [n \in 1..rows |-> [k \in 1..cols |-> Dot(Column(a, n), Column(b, k))]]

MatAdd(a, b) == [i \in 1..Len(a) |-> [k \in 1..Len(a[i]) |-> a[i][k] + b[i][k]]]

\* t[s:e] with Python's clamping of the slice bounds to the row count
Slice(t, s, e) == SubSeq(t, Min(s, Len(t)) + 1, Min(e, Len(t)))

\* t[s:e] = y, for y of the shape of t[s:e]
SetRows(t, s, y) ==
    [i \in 1..Len(t) |-> IF i > s /\ i <= s + Len(y) THEN y[i - s] ELSE t[i]]

\* t[s:e] += y
AddRows(t, s, y) ==
    [i \in 1..Len(t) |->
        IF i > s /\ i <= s + Len(y)
        THEN [k \in 1..Len(t[i]) |-> t[i][k] + y[i - s][k]]
        ELSE t[i]]

-----------------------------------------------------------------------------
(* Inputs: torch.randn draws, modelled by a bounded family of matrices *)

RandX(seed, rows) ==
    [i \in 1..rows |-> [k \in 1..KDim |-> (((seed + 2) * i + k * k + seed) % 5) - 2]]

RandW(seed) ==
    [n \in 1..NDim |-> [k \in 1..KDim |-> (((seed + 1) * n + 2 * k + seed) % 3) - 1]]

RandGrad(seed, rows) ==
    [i \in 1..rows |-> [n \in 1..NDim |-> ((i * (n + seed) + n + 2 * seed) % 4) - 1]]

RECURSIVE SeqsUpTo(_, _)
SeqsUpTo(S, n) ==
    IF n = 0 THEN {<<>>}
    ELSE LET shorter == SeqsUpTo(S, n - 1)
         IN  shorter \cup {Append(s, e) : s \in {t \in shorter : Len(t) = n - 1}, e \in S}

\* torch.tensor(M_sizes, dtype=torch.int32) of any content, G >= 1
SizeVectors == {s \in SeqsUpTo(-1..MaxM, MaxG) : Len(s) >= 1}

-----------------------------------------------------------------------------
(* compute_reference_forward *)

\* if m_size > 0:
Taken(m_size) == m_size > 0

\* variant: the end taken as the last row of the group, not one past it
GroupEnd_Inclusive(start, m_size) == start + m_size - 1

\* m_end = m_start + m_size
GroupEnd(start, m_size) == start + m_size

\* y_g = torch.matmul(x_g, w.T)
GroupOutput(x_g, wt) == MatMulT(x_g, wt)

\* variant: the offset is not advanced past the group
NextStart_Stale(start, m_end) == start

\* m_start = m_end
NextStart(start, m_end) == m_end

\* variant: a skipped group is padded to one row
SkipStart_Padded(start) == start + 1

\* a group that fails the test leaves m_start as it is
SkipStart(start) == start

\* one iteration of the group loop on the loop state st
LoopBody(st, xin, win, m_size) ==
    IF Taken(m_size)
    THEN LET m_end == GroupEnd(st.m_start, m_size)
             x_g == Slice(xin, st.m_start, m_end)
             y_g == GroupOutput(x_g, win)
         IN  [result |-> SetRows(st.result, st.m_start, y_g),
              m_start |-> NextStart(st.m_start, m_end),
              tape |-> Append(st.tape, [s |-> st.m_start, e |-> m_end])]
    ELSE [st EXCEPT !.m_start = SkipStart(st.m_start)]

\* result = torch.zeros((x.shape[0], w.shape[0])); m_start = 0
LoopInit(xin, win) ==
    [result |-> Zeros(Len(xin), Len(win)), m_start |-> 0, tape |-> <<>>]

RECURSIVE RunLoop(_, _, _, _)
RunLoop(st, xin, win, sizes) ==
    IF sizes = <<>> THEN st
    ELSE RunLoop(LoopBody(st, xin, win, sizes[1]), xin, win, Tail(sizes))

\* the function as a whole: the returned tensor
compute_reference_forward(xin, win, sizes) ==
    RunLoop(LoopInit(xin, win), xin, win, sizes).result

-----------------------------------------------------------------------------
(* compute_reference_backward: autograd over the recorded slices *)

\* gradient of y_g = x_g @ w.T with respect to x_g
GradInput(gy_g, win) == MatMul(gy_g, win, KDim)

\* gradient of y_g = x_g @ w.T with respect to w
GradWeight(gy_g, x_g) == MatTMul(gy_g, x_g, NDim, KDim)

RECURSIVE BackwardX(_, _, _, _)
BackwardX(tp, xin, win, gout) ==
    IF tp = <<>> THEN Zeros(Len(xin), KDim)
    ELSE LET n == Len(tp)
             node == tp[n]
         IN  AddRows(BackwardX(SubSeq(tp, 1, n - 1), xin, win, gout),
                     Min(node.s, Len(xin)),
                     GradInput(Slice(gout, node.s, node.e), win))

RECURSIVE BackwardW(_, _, _)
BackwardW(tp, xin, gout) ==
    IF tp = <<>> THEN Zeros(NDim, KDim)
    ELSE LET n == Len(tp)
             node == tp[n]
         IN  MatAdd(BackwardW(SubSeq(tp, 1, n - 1), xin, gout),
                    GradWeight(Slice(gout, node.s, node.e),
                               Slice(xin, node.s, node.e)))

\* output.backward(grad_output) raises when output has no grad_fn, which is
\* the case when no slice assignment ever connected it to x and w
HasGradFn(tp) == tp /= <<>>

-----------------------------------------------------------------------------
(* The reference call as a state machine *)

None == <<"none">>

\* the variables a call does not use
IdleLoop == m_start = 0 /\ g = 0 /\ tape = <<>>

IdleEngine == wpc = <<>> /\ partial = <<>> /\ writers = <<>>

IdleTensors ==
    /\ x = <<>> /\ w = <<>> /\ m_sizes = <<>> /\ grad_output = <<>>
    /\ result = <<>> /\ grad_x = None /\ grad_w = None

IdleSweep ==
    /\ n_configs = 0 /\ config = None /\ config_idx = 0 /\ M_sizes = <<>>
    /\ results = <<>> /\ outcomes = <<>> /\ sweep_ret = None

IdleCompare ==
    /\ actual = <<>> /\ expected = <<>> /\ ncols = 1
    /\ log = <<>> /\ is_close = None

InitRef ==
    /\ IdleEngine /\ IdleSweep /\ IdleCompare
    /\ \E seed \in 0..MaxSeed, rows \in 0..MaxM :
          /\ x = RandX(seed, rows)
          /\ w = RandW(seed)
          /\ grad_output = RandGrad(seed, rows)
    /\ m_sizes \in SizeVectors
    /\ result = LoopInit(x, w).result
    /\ m_start = LoopInit(x, w).m_start
    /\ tape = LoopInit(x, w).tape
    /\ g = 0
    /\ grad_x = None
    /\ grad_w = None
    /\ pc = "loop"

LoopState == [result |-> result, m_start |-> m_start, tape |-> tape]

StepLoop ==
    LET st == LoopBody(LoopState, x, w, m_sizes[g + 1])
    IN  /\ result' = st.result
        /\ m_start' = st.m_start
        /\ tape' = st.tape
        /\ g' = g + 1
        /\ UNCHANGED <<x, w, m_sizes, grad_output, grad_x, grad_w, pc>>
        /\ UNCHANGED <<engVars, sweepVars, cmpVars>>

\* an iteration whose group passes the m_size > 0 test
ForwardGroup ==
    /\ pc = "loop"
    /\ g < Len(m_sizes)
    /\ Taken(m_sizes[g + 1])
    /\ StepLoop

\* an iteration whose group is skipped
ForwardSkip ==
    /\ pc = "loop"
    /\ g < Len(m_sizes)
    /\ ~Taken(m_sizes[g + 1])
    /\ StepLoop

\* return result
ForwardReturn ==
    /\ pc = "loop"
    /\ g = Len(m_sizes)
    /\ pc' = "fwd_done"
    /\ UNCHANGED <<refVars, engVars, sweepVars, cmpVars>>

\* output.backward(grad_output); return x_autograd.grad, w_autograd.grad
Backward ==
    /\ pc = "fwd_done"
    /\ HasGradFn(tape)
    /\ grad_x' = BackwardX(tape, x, w, grad_output)
    /\ grad_w' = BackwardW(tape, x, grad_output)
    /\ pc' = "bwd_done"
    /\ UNCHANGED <<x, w, m_sizes, grad_output, result, m_start, g, tape>>
    /\ UNCHANGED <<engVars, sweepVars, cmpVars>>

\* output.backward(grad_output) on an output without grad_fn
BackwardRaise ==
    /\ pc = "fwd_done"
    /\ ~HasGradFn(tape)
    /\ pc' = "bwd_raised"
    /\ UNCHANGED <<refVars, engVars, sweepVars, cmpVars>>

NextRef == ForwardGroup \/ ForwardSkip \/ ForwardReturn \/ Backward \/ BackwardRaise

SpecRef == InitRef /\ [][NextRef]_vars

-----------------------------------------------------------------------------
(* Vocabulary of the properties: the partition the group sizes describe *)

NonNegative(sizes) == \A i \in 1..Len(sizes) : sizes[i] >= 0

\* all entries >= 0 and sum(group_sizes) = rows(X)
ValidSizes(sizes, xin) == NonNegative(sizes) /\ SumSeq(sizes) = Len(xin)

\* offset[k]: the sum of the first k sizes
Offset(sizes, k) == SumSeq(SubSeq(sizes, 1, k))

\* rows s..e-1 (0-based, half-open) of t, for 0 <= s <= e <= rows(t)
Rows(t, s, e) == SubSeq(t, s + 1, e)

RECURSIVE StripZeros(_)
StripZeros(sizes) ==
    IF sizes = <<>> THEN <<>>
    ELSE IF sizes[1] = 0 THEN StripZeros(Tail(sizes))
    ELSE <<sizes[1]>> \o StripZeros(Tail(sizes))

\* sum over the groups 1..k of grad_Y[s:e]^T @ X[s:e]
RECURSIVE WeightGradientSum(_, _, _, _)
WeightGradientSum(sizes, xin, gout, k) ==
    IF k = 0 THEN Zeros(NDim, KDim)
    ELSE MatAdd(WeightGradientSum(sizes, xin, gout, k - 1),
                MatTMul(Rows(gout, Offset(sizes, k - 1), Offset(sizes, k)),
                        Rows(xin, Offset(sizes, k - 1), Offset(sizes, k)),
                        NDim, KDim))

ForwardReturned == pc \in {"fwd_done", "bwd_done", "bwd_raised"}

BackwardEnded == pc \in {"bwd_done", "bwd_raised"}

-----------------------------------------------------------------------------
(* Properties of the reference forward and backward, under SpecRef *)

\* C1: for valid group sizes, every group's row slice of the returned tensor
\* is that slice of x times w^T, and with a single group the returned tensor
\* is the plain matmul x @ w^T.
C1_GroupSlicesAreMatmul ==
    (ForwardReturned /\ ValidSizes(m_sizes, x)) =>
        /\ Len(result) = Len(x)
        /\ \A k \in 1..Len(m_sizes) :
              Rows(result, Offset(m_sizes, k - 1), Offset(m_sizes, k))
                  = MatMulT(Rows(x, Offset(m_sizes, k - 1), Offset(m_sizes, k)), w)
        /\ (Len(m_sizes) = 1 => result = MatMulT(x, w))

C1_Witness ==
    /\ pc = "fwd_done"
    /\ ValidSizes(m_sizes, x)
    /\ Len(m_sizes) >= 3
    /\ \A i \in 1..Len(m_sizes) : m_sizes[i] > 0

\* C2: for non-negative sizes the running offset m_start is the prefix sum of
\* the sizes processed so far (0 at the start, never decreasing); the recorded
\* ranges are ordered, and for valid sizes the loop ends with m_start = M_total
\* and the ranges cover every row exactly once.
C2_PrefixSumPartition ==
    NonNegative(m_sizes) =>
        /\ m_start = Offset(m_sizes, g)
        /\ \A i \in 1..Len(tape) :
              /\ tape[i].s < tape[i].e
              /\ i > 1 => tape[i - 1].e <= tape[i].s
        /\ (ForwardReturned /\ SumSeq(m_sizes) = Len(x)) =>
              /\ m_start = Len(x)
              /\ \A r \in 0..(Len(x) - 1) :
                    Cardinality({i \in 1..Len(tape) :
                                    tape[i].s <= r /\ r < tape[i].e}) = 1

C2_Witness ==
    /\ pc = "fwd_done"
    /\ ValidSizes(m_sizes, x)
    /\ Len(tape) >= 2
    /\ \E i \in 1..Len(m_sizes) : m_sizes[i] = 0

\* C3: for valid sizes with one or more zero entries the returned tensor is
\* the one the function returns for the vector without those zero entries.
C3_ZeroGroupNoOp ==
    (ForwardReturned /\ ValidSizes(m_sizes, x)
        /\ \E i \in 1..Len(m_sizes) : m_sizes[i] = 0) =>
        result = compute_reference_forward(x, w, StripZeros(m_sizes))

C3_Witness ==
    /\ pc = "fwd_done"
    /\ ValidSizes(m_sizes, x)
    /\ \E i \in 2..(Len(m_sizes) - 1) :
          m_sizes[i - 1] > 0 /\ m_sizes[i] = 0 /\ m_sizes[i + 1] > 0

\* the gradients are the matmul adjoint of the grouped forward
AdjointHolds ==
    /\ pc = "bwd_done"
    /\ Len(grad_x) = Len(x)
    /\ \A i \in 1..Len(grad_x) : Len(grad_x[i]) = KDim
    /\ \A k \in 1..Len(m_sizes) :
          Rows(grad_x, Offset(m_sizes, k - 1), Offset(m_sizes, k))
              = MatMul(Rows(grad_output, Offset(m_sizes, k - 1), Offset(m_sizes, k)),
                       w, KDim)
    /\ grad_w = WeightGradientSum(m_sizes, x, grad_output, Len(m_sizes))

\* C4: for every valid group-size vector the reference backward returns
\* grad_x and grad_w of the shapes of x and w, with grad_x[s:e] = grad_Y[s:e] @ W
\* for every group and grad_w the sum over the groups of grad_Y[s:e]^T @ X[s:e].
C4_BackwardIsAdjoint ==
    (BackwardEnded /\ ValidSizes(m_sizes, x)) => AdjointHolds

\* the same for valid vectors with one or more non-empty groups
C4_AdjointWhenSomeGroupNonEmpty ==
    (BackwardEnded /\ ValidSizes(m_sizes, x) /\ Len(x) >= 1) => AdjointHolds

\* C5: a forward call whose sizes do not sum to rows(x) returns no output.
C5_SumMismatchRejected ==
    (NonNegative(m_sizes) /\ SumSeq(m_sizes) /= Len(x)) => ~ForwardReturned

\* C6: a forward call with a negative group size never completes normally.
C6_NegativeSizeRejected ==
    (ForwardReturned /\ SumSeq(m_sizes) = Len(x)) => NonNegative(m_sizes)


-----------------------------------------------------------------------------
(* The grouped GEMM engine (mg_grouped_gemm) with one worker per group:    *)
(* each worker computes its group's rows of Y and grad_X and its partial   *)
(* product, then adds the partial product into the shared grad_W.          *)

\* valid group-size vectors for an input of the given row count
ValidVectors(rows) == {s \in SizeVectors : NonNegative(s) /\ SumSeq(s) = rows}

\* the row range [s, e) of group k, from the prefix sums of the sizes
GroupRange(sizes, k) == [s |-> Offset(sizes, k - 1), e |-> Offset(sizes, k)]

\* variant: the partial product is stored, not added
PlainStore(acc, part) == part

\* the atomic accumulation of one worker's partial product into grad_W
AtomicAdd(acc, part) == MatAdd(acc, part)

\* every worker has to be run once; an empty group has nothing to compute
InitEngine ==
    /\ IdleLoop /\ IdleSweep /\ IdleCompare
    /\ \E seed \in 0..MaxSeed, rows \in 0..MaxM :
          /\ x = RandX(seed, rows)
          /\ w = RandW(seed)
          /\ grad_output = RandGrad(seed, rows)
          /\ m_sizes \in ValidVectors(rows)
    /\ result = Zeros(Len(x), NDim)
    /\ grad_x = Zeros(Len(x), KDim)
    /\ grad_w = Zeros(NDim, KDim)
    /\ wpc = [k \in 1..Len(m_sizes) |-> "start"]
    /\ partial = [k \in 1..Len(m_sizes) |-> None]
    /\ writers = [r \in 1..Len(x) |-> {}]
    /\ pc = "engine"

\* worker k computes its tiles: Y[s:e] = X[s:e] @ W^T, grad_X[s:e] = grad_Y[s:e] @ W
\* and its partial product grad_Y[s:e]^T @ X[s:e]
WorkerCompute(k) ==
    LET rg == GroupRange(m_sizes, k)
    IN  /\ pc = "engine"
        /\ wpc[k] = "start"
        /\ m_sizes[k] > 0
        /\ result' = SetRows(result, rg.s, MatMulT(Rows(x, rg.s, rg.e), w))
        /\ grad_x' = SetRows(grad_x, rg.s, MatMul(Rows(grad_output, rg.s, rg.e), w, KDim))
        /\ partial' = [partial EXCEPT ![k] =
                          MatTMul(Rows(grad_output, rg.s, rg.e), Rows(x, rg.s, rg.e),
                                  NDim, KDim)]
        /\ writers' = [r \in 1..Len(x) |->
                          IF r > rg.s /\ r <= rg.e THEN writers[r] \cup {k} ELSE writers[r]]
        /\ wpc' = [wpc EXCEPT ![k] = "computed"]
        /\ UNCHANGED <<x, w, m_sizes, grad_output, grad_w, loopVars, sweepVars, cmpVars, pc>>

\* a zero-size group is skipped: no rows, no compute, no accumulation
WorkerSkip(k) ==
    /\ pc = "engine"
    /\ wpc[k] = "start"
    /\ m_sizes[k] = 0
    /\ wpc' = [wpc EXCEPT ![k] = "done"]
    /\ UNCHANGED <<tensorVars, loopVars, partial, writers, sweepVars, cmpVars, pc>>

\* worker k adds its partial product into the shared accumulator
WorkerAccumulate(k) ==
    /\ pc = "engine"
    /\ wpc[k] = "computed"
    /\ grad_w' = AtomicAdd(grad_w, partial[k])
    /\ wpc' = [wpc EXCEPT ![k] = "done"]
    /\ UNCHANGED <<x, w, m_sizes, grad_output, result, grad_x>>
    /\ UNCHANGED <<loopVars, partial, writers, sweepVars, cmpVars, pc>>

\* the dispatch completes when every worker has finished
EngineReturn ==
    /\ pc = "engine"
    /\ \A k \in 1..Len(m_sizes) : wpc[k] = "done"
    /\ pc' = "engine_done"
    /\ UNCHANGED <<refVars, engVars, sweepVars, cmpVars>>

NextEngine ==
    \/ \E k \in 1..Len(m_sizes) : WorkerCompute(k)
    \/ \E k \in 1..Len(m_sizes) : WorkerSkip(k)
    \/ \E k \in 1..Len(m_sizes) : WorkerAccumulate(k)
    \/ EngineReturn

SpecEngine == InitEngine /\ [][NextEngine]_vars

\* sum of the partial products of the workers that have accumulated
RECURSIVE AccumulatedSum(_)
AccumulatedSum(k) ==
    IF k = 0 THEN Zeros(NDim, KDim)
    ELSE IF wpc[k] = "done" /\ partial[k] /= None
         THEN MatAdd(AccumulatedSum(k - 1), partial[k])
         ELSE AccumulatedSum(k - 1)

\* C7: under every interleaving of the group-workers, no row of Y and grad_X
\* is written by two workers, the shared grad_W always holds exactly the
\* partial products of the workers that have accumulated (none lost, none
\* twice), and when all have finished grad_W is the sum over all groups and
\* every row has been written by exactly one worker.
C7_AccumulationLosesNothing ==
    pc \in {"engine", "engine_done"} =>
        /\ \A r \in 1..Len(x) : Cardinality(writers[r]) <= 1
        /\ grad_w = AccumulatedSum(Len(m_sizes))
        /\ pc = "engine_done" =>
              /\ grad_w = WeightGradientSum(m_sizes, x, grad_output, Len(m_sizes))
              /\ \A r \in 1..Len(x) : Cardinality(writers[r]) = 1
              /\ result = MatMulT(x, w)
              /\ grad_x = MatMul(grad_output, w, KDim)

C7_Witness ==
    /\ pc = "engine_done"
    /\ Cardinality({k \in 1..Len(m_sizes) : m_sizes[k] > 0}) >= 2
    /\ \E k \in 1..Len(m_sizes) : m_sizes[k] = 0
    /\ grad_w /= Zeros(NDim, KDim)


-----------------------------------------------------------------------------
(* test_multiple_deepseek_configs: the multi-configuration sweep *)

MaxConfigs == 2    \* length of the configs list
SweepMaxG == 3     \* largest G of a configuration
SweepMaxM == 5     \* largest M of a configuration

\* the configurations (G, M) a list may hold: G >= 1, M >= 0
Configs == [G : 1..SweepMaxG, M : 0..SweepMaxM]

\* variant: the extra row goes to one group too many
SizeAt_OffByOne(i, base_size, remainder) ==
    base_size + (IF i <= remainder THEN 1 ELSE 0)

\* base_size + (1 if i < remainder else 0), for i in range(G)
SizeAt(i, base_size, remainder) == base_size + (IF i < remainder THEN 1 ELSE 0)

\* results.append((config_idx + 1, config_success, forward_close, backward_close))
CompareEntry(idx, forward_close, grad_x_close, grad_w_close) ==
    LET backward_close == grad_x_close /\ grad_w_close
        config_success == forward_close /\ backward_close
    IN  <<idx + 1, config_success, forward_close, backward_close>>

\* variant: the handler logs the exception and records nothing
AfterRaise_Dropped(res, idx) == res

\* except Exception: results.append((config_idx + 1, False, False, False))
AfterRaise(res, idx) == Append(res, <<idx + 1, FALSE, FALSE, FALSE>>)

\* all(overall_success for _, overall_success, _, _ in results)
AllPassed(res) == \A i \in 1..Len(res) : res[i][2]

InitSweep ==
    /\ IdleTensors /\ IdleLoop /\ IdleEngine /\ IdleCompare
    /\ n_configs \in 1..MaxConfigs
    /\ config_idx = 0
    /\ config \in Configs
    /\ M_sizes = <<>>
    /\ results = <<>>
    /\ outcomes = <<>>
    /\ sweep_ret = None
    /\ pc = "sizes"

\* one element of the list comprehension that builds M_sizes
BuildSize ==
    /\ pc = "sizes"
    /\ Len(M_sizes) < config.G
    /\ M_sizes' = Append(M_sizes,
                         SizeAt(Len(M_sizes), config.M \div config.G, config.M % config.G))
    /\ UNCHANGED <<n_configs, config, config_idx, results, outcomes, sweep_ret>>
    /\ UNCHANGED <<refVars, engVars, cmpVars, pc>>

\* the list is complete: m_sizes = torch.tensor(M_sizes, ...)
SizesBuilt ==
    /\ pc = "sizes"
    /\ Len(M_sizes) = config.G
    /\ pc' = "testing"
    /\ UNCHANGED <<refVars, engVars, sweepVars, cmpVars>>

\* the loop goes on to the next configuration, or leaves after the last one
Advance ==
    /\ config_idx' = config_idx + 1
    /\ M_sizes' = <<>>
    /\ IF config_idx + 1 < n_configs
       THEN config' \in Configs /\ pc' = "sizes"
       ELSE config' = None /\ pc' = "summary"

\* the forward and backward runs return and the three comparisons are made
ConfigCompared ==
    /\ pc = "testing"
    /\ \E forward_close, grad_x_close, grad_w_close \in BOOLEAN :
          /\ results' = Append(results, CompareEntry(config_idx, forward_close,
                                                     grad_x_close, grad_w_close))
          /\ outcomes' = Append(outcomes, [raised |-> FALSE,
                                            passed |-> forward_close /\ grad_x_close
                                                          /\ grad_w_close])
    /\ Advance
    /\ UNCHANGED <<n_configs, sweep_ret, refVars, engVars, cmpVars>>

\* a statement of the try block raises an Exception
ConfigRaised ==
    /\ pc = "testing"
    /\ results' = AfterRaise(results, config_idx)
    /\ outcomes' = Append(outcomes, [raised |-> TRUE, passed |-> FALSE])
    /\ Advance
    /\ UNCHANGED <<n_configs, sweep_ret, refVars, engVars, cmpVars>>

\* the summary is logged and the sweep returns
SweepReturn ==
    /\ pc = "summary"
    /\ sweep_ret' = AllPassed(results)
    /\ pc' = "sweep_done"
    /\ UNCHANGED <<n_configs, config, config_idx, M_sizes, results, outcomes>>
    /\ UNCHANGED <<refVars, engVars, cmpVars>>

NextSweep == BuildSize \/ SizesBuilt \/ ConfigCompared \/ ConfigRaised \/ SweepReturn

SpecSweep == InitSweep /\ [][NextSweep]_vars

\* C8: the group sizes built for (G, M) are G non-negative sizes summing to M,
\* each floor(M/G) or floor(M/G)+1, exactly the first M mod G of them the
\* larger, hence non-increasing.
C8_SizesSplitM ==
    pc = "testing" =>
        /\ Len(M_sizes) = config.G
        /\ SumSeq(M_sizes) = config.M
        /\ \A i \in 1..Len(M_sizes) :
              /\ M_sizes[i] >= 0
              /\ M_sizes[i] = (config.M \div config.G)
                                + (IF i <= config.M % config.G THEN 1 ELSE 0)
              /\ i > 1 => M_sizes[i] <= M_sizes[i - 1]

C8_Witness ==
    /\ pc = "testing"
    /\ config.G >= 3
    /\ config.M > config.G
    /\ config.M % config.G >= 2

C8_WitnessFewRows ==
    /\ pc = "testing"
    /\ config.G >= 2
    /\ config.M >= 1
    /\ config.M < config.G

\* C9: every configuration attempted so far has exactly one entry in results,
\* in order; a configuration that raised is entered as failed overall, forward
\* and backward; the sweep ends only after the last configuration and returns
\* true exactly when no configuration raised and every one passed its forward,
\* grad_x and grad_w comparisons.
C9_SweepIsolatesFailures ==
    /\ pc \in {"sizes", "testing", "summary", "sweep_done"} =>
          /\ Len(results) = config_idx
          /\ Len(outcomes) = config_idx
          /\ \A i \in 1..Len(results) :
                /\ results[i][1] = i
                /\ outcomes[i].raised => results[i] = <<i, FALSE, FALSE, FALSE>>
    /\ pc \in {"sizes", "testing"} => config_idx < n_configs
    /\ pc \in {"summary", "sweep_done"} => config_idx = n_configs
    /\ pc = "sweep_done" =>
          sweep_ret = (\A i \in 1..n_configs : outcomes[i].passed)

C9_Witness ==
    /\ pc = "sweep_done"
    /\ Len(outcomes) >= 2
    /\ outcomes[1].raised
    /\ outcomes[2].passed
    /\ sweep_ret = FALSE


-----------------------------------------------------------------------------
(* analyze_tensor_differences.  A tensor element is a floating-point value: *)
(* an integer, NaN or an infinity, held as a record of its class and value  *)
(* (the sign, for an infinity); tensors are held flattened in row-major     *)
(* order.                                                                   *)

MaxLen == 2     \* elements of a compared tensor

RtolNum == 1    \* rtol = RtolNum / TolDen
AtolNum == 1    \* atol = AtolNum / TolDen
TolDen == 2

Fin(n) == [cls |-> "fin", v |-> n]
NaN == [cls |-> "nan", v |-> 0]
PosInf == [cls |-> "inf", v |-> 1]
NegInf == [cls |-> "inf", v |-> -1]

Elements == {Fin(n) : n \in {-1, 0, 1, 3}} \cup {NaN, PosInf, NegInf}

IsFinite(v) == v.cls = "fin"
IsNaN(v) == v.cls = "nan"

Abs(n) == IF n < 0 THEN -n ELSE n

\* (a - e).abs() in floating point
AbsDiff(a, e) ==
    IF IsNaN(a) \/ IsNaN(e) THEN NaN
    ELSE IF IsFinite(a) /\ IsFinite(e) THEN Fin(Abs(a.v - e.v))
    ELSE IF a = e THEN NaN
    ELSE PosInf

\* the order of two absolute differences, with NaN taken as the maximum, as
\* argmax and max do
Greater(u, v) ==
    IF IsNaN(v) THEN FALSE
    ELSE IF IsNaN(u) THEN TRUE
    ELSE IF v = PosInf THEN FALSE
    ELSE IF u = PosInf THEN TRUE
    ELSE u.v > v.v

\* diff.argmax(): the flat 0-based index of the first maximal element
ArgMax(diff) ==
    CHOOSE i \in 0..(Len(diff) - 1) :
        /\ \A j \in 0..(Len(diff) - 1) : ~Greater(diff[j + 1], diff[i + 1])
        /\ \A j \in 0..(i - 1) : Greater(diff[i + 1], diff[j + 1])

\* np.unravel_index(max_idx, actual.shape) for the shape (numel / cols, cols)
UnravelIndex(flat, cols) == <<flat \div cols, flat % cols>>

\* actual[idx] for a 2-d index of a tensor held flattened
ElementAt(t, idx, cols) == t[idx[1] * cols + idx[2] + 1]

\* variant: the relative tolerance taken of the actual value
IsClose_RelativeToActual(a, e) ==
    \/ (~IsNaN(a) /\ ~IsNaN(e) /\ a = e)
    \/ /\ IsFinite(a) /\ IsFinite(e)
       /\ TolDen * Abs(a.v - e.v) <= AtolNum + RtolNum * Abs(a.v)

\* torch.isclose(a, e, rtol, atol): equal, or the error is finite and at most
\* atol + rtol * |e|
IsClose(a, e) ==
    \/ (~IsNaN(a) /\ ~IsNaN(e) /\ a = e)
    \/ /\ IsFinite(a) /\ IsFinite(e)
       /\ TolDen * Abs(a.v - e.v) <= AtolNum + RtolNum * Abs(e.v)

\* torch.allclose(actual, expected, rtol=rtol, atol=atol)
AllClose(a, e) == \A i \in 1..Len(a) : IsClose(a[i], e[i])

IsZero(v) == v = Fin(0)

\* (t == 0).sum().item()
CountZeros(t) == Cardinality({i \in 1..Len(t) : IsZero(t[i])})

\* torch.isnan(t).sum().item()
CountNaN(t) == Cardinality({i \in 1..Len(t) : IsNaN(t[i])})

\* the records logged when the comparison fails
FailureReport(a, e) ==
    LET zeros_actual == CountZeros(a)
        zeros_expected == CountZeros(e)
        nan_actual == CountNaN(a)
    IN  <<[kind |-> "failure"],
          [kind |-> "zeros_actual", count |-> zeros_actual, numel |-> Len(a)],
          [kind |-> "zeros_expected", count |-> zeros_expected, numel |-> Len(e)]>>
        \o (IF nan_actual > 0
            THEN <<[kind |-> "nan_actual", count |-> nan_actual]>>
            ELSE <<>>)

\* the records logged by a call on non-empty tensors
Report(a, e, cols) ==
    LET diff == [i \in 1..Len(a) |-> AbsDiff(a[i], e[i])]
        max_idx == ArgMax(diff)
        idx == UnravelIndex(max_idx, cols)
        max_diff == diff[max_idx + 1]
    IN  <<[kind |-> "largest", max_diff |-> max_diff, idx |-> idx],
          [kind |-> "values", actual |-> ElementAt(a, idx, cols),
                              expected |-> ElementAt(e, idx, cols)]>>
        \o (IF AllClose(a, e) THEN <<[kind |-> "success"]>> ELSE FailureReport(a, e))

\* the shapes (numel / cols, cols) a flattened tensor of n elements may have
ColumnCounts(n) == {c \in 1..n : n % c = 0}

InitCompare ==
    /\ IdleTensors /\ IdleLoop /\ IdleEngine /\ IdleSweep
    /\ \E n \in 0..MaxLen :
          /\ actual \in [1..n -> Elements]
          /\ expected \in [1..n -> Elements]
          /\ ncols \in (IF n = 0 THEN {1} ELSE ColumnCounts(n))
    /\ log = <<>>
    /\ is_close = None
    /\ pc = "compare"

\* the call on non-empty tensors
Analyze ==
    /\ pc = "compare"
    /\ Len(actual) > 0
    /\ log' = Report(actual, expected, ncols)
    /\ is_close' = AllClose(actual, expected)
    /\ pc' = "cmp_done"
    /\ UNCHANGED <<actual, expected, ncols, refVars, engVars, sweepVars>>

\* diff.argmax() of a tensor without elements raises
AnalyzeRaise ==
    /\ pc = "compare"
    /\ Len(actual) = 0
    /\ pc' = "cmp_raised"
    /\ UNCHANGED <<cmpVars, refVars, engVars, sweepVars>>

NextCompare == Analyze \/ AnalyzeRaise

SpecCompare == InitCompare /\ [][NextCompare]_vars

Logged(kind) == \E i \in 1..Len(log) : log[i].kind = kind

LogOf(kind) == log[CHOOSE i \in 1..Len(log) : log[i].kind = kind]

\* |a - e| <= atol + rtol * |e| evaluated in floating point
WithinTolerance(a, e) ==
    IF IsNaN(a) \/ IsNaN(e) THEN FALSE
    ELSE IF IsFinite(a) /\ IsFinite(e)
         THEN TolDen * Abs(a.v - e.v) <= AtolNum + RtolNum * Abs(e.v)
    ELSE IF IsFinite(e) THEN FALSE
    ELSE a /= e

\* the largest discrepancy is reported with its value and location
LargestReported ==
    /\ Logged("largest") /\ Logged("values")
    /\ LET top == LogOf("largest")
           flat == top.idx[1] * ncols + top.idx[2] + 1
       IN  /\ flat \in 1..Len(actual)
           /\ top.max_diff = AbsDiff(actual[flat], expected[flat])
           /\ \A i \in 1..Len(actual) :
                 ~Greater(AbsDiff(actual[i], expected[i]), top.max_diff)
           /\ LogOf("values").actual = actual[flat]
           /\ LogOf("values").expected = expected[flat]

ZerosReported ==
    /\ Logged("zeros_actual") /\ Logged("zeros_expected")
    /\ LogOf("zeros_actual").count = CountZeros(actual)
    /\ LogOf("zeros_expected").count = CountZeros(expected)

NaNReported ==
    /\ Logged("nan_actual")
    /\ LogOf("nan_actual").count = CountNaN(actual)

\* C10: every comparison reports the largest discrepancy with value and
\* location, the zero counts of both tensors and the NaN count, and returns
\* true exactly when every element is within atol + rtol * |expected|.
C10_EveryCallReportsAll ==
    pc = "cmp_done" =>
        /\ LargestReported
        /\ ZerosReported
        /\ NaNReported
        /\ is_close = (\A i \in 1..Len(actual) : WithinTolerance(actual[i], expected[i]))

\* C10 as the code has it: a comparison of non-empty tensors reports the
\* largest discrepancy (NaN counting as the largest) with value and location;
\* it returns true exactly when every pair of elements is equal or finite and
\* within atol + rtol * |expected|; the zero counts are reported exactly when
\* it returns false, and the NaN count of the actual tensor exactly when it
\* returns false and that count is positive.
C10_ReportsOnFailure ==
    pc = "cmp_done" =>
        /\ LargestReported
        /\ is_close = (\A i \in 1..Len(actual) :
                          \/ (actual[i] = expected[i] /\ ~IsNaN(actual[i]))
                          \/ /\ IsFinite(actual[i]) /\ IsFinite(expected[i])
                             /\ WithinTolerance(actual[i], expected[i]))
        /\ is_close => ~Logged("zeros_actual") /\ ~Logged("zeros_expected")
                          /\ ~Logged("nan_actual")
        /\ ~is_close => ZerosReported
        /\ (~is_close /\ CountNaN(actual) > 0) => NaNReported
        /\ CountNaN(actual) = 0 => ~Logged("nan_actual")

C10_Witness ==
    /\ pc = "cmp_done"
    /\ is_close = FALSE
    /\ Len(actual) >= 2
    /\ ncols >= 2
    /\ CountNaN(actual) > 0
    /\ CountZeros(expected) > 0

C10_WitnessMatch ==
    /\ pc = "cmp_done"
    /\ is_close = TRUE
    /\ \E i \in 1..Len(actual) : actual[i] /= expected[i]


====
